---- MODULE Spec2Model ----
(***************************************************************************)
(* A model of AgentServer (packages/cli/src/server/index.ts): the agent    *)
(* registry, the express application(s) routes are mounted on, the         *)
(* listener(s) created by start and the graceful shutdown handlers.        *)
(*                                                                         *)
(* Environment assumptions, all stated where they are used:                *)
(*  - a valid port handed to start is free, unless a listener of this     *)
(*    server already holds it (then listen fails with EADDRINUSE);         *)
(*  - an agent's stop returns, throws synchronously, or returns a promise  *)
(*    that never settles (it does not block the event loop);               *)
(*  - route paths are matched exactly, and a static mount answers a GET    *)
(*    only for a file it holds;                                            *)
(*  - start is not called with a valid port again after the listener was   *)
(*    asked to close (no restart of a stopped server).                     *)
(***************************************************************************)
EXTENDS Integers, Sequences, FiniteSets, TLC

(***************************************************************************)
(* Bounds of the model.                                                    *)
(***************************************************************************)
MaxEvents == 3    \* registerAgent calls that pass the input checks,
                  \* registerMiddleware calls and termination signals in
                  \* one run

(***************************************************************************)
(* Program constants.                                                      *)
(***************************************************************************)
GraceMs == 5000        \* setTimeout(..., 5000)
ExitClean == 0         \* process.exit(0) in the close callback
ExitForced == 1        \* process.exit(1) in the grace timer
MaxPort == 65535       \* largest port net.Server.listen accepts

(***************************************************************************)
(* String helpers (String.prototype.startsWith / endsWith / includes /     *)
(* slice), computed on the characters.                                     *)
(***************************************************************************)
StartsWith(s, p) == Len(s) >= Len(p) /\ SubSeq(s, 1, Len(p)) = p

EndsWith(s, p) == Len(s) >= Len(p) /\ SubSeq(s, Len(s) - Len(p) + 1, Len(s)) = p

Includes(s, p) ==
    \E i \in 1..(Len(s) - Len(p) + 1) : SubSeq(s, i, i + Len(p) - 1) = p

(***************************************************************************)
(* Route descriptors and plugins of the runtimes handed to the server.     *)
(* bad = TRUE stands for a path pattern express refuses (app.get throws).  *)
(***************************************************************************)
Route(t, p, k) == [type |-> t, path |-> p, handler |-> k, bad |-> FALSE]

BadRoute(t, p, k) == [type |-> t, path |-> p, handler |-> k, bad |-> TRUE]

\* resolve: "pkg" (require.resolve finds package.json), "fallback"
\* (node_modules/<name> exists), "none" (neither).
\* dirs: the candidate directories that exist under the plugin directory,
\* files: <<directory, file>> pairs served from them.
Plugin(n, r, d, f, rs, pt) ==
    [name |-> n, resolve |-> r, dirs |-> d, files |-> f, routes |-> rs,
     pushThrows |-> pt]

PortalPlugin ==
    Plugin("portal", "pkg", {"dist/assets", "dist", "portal/dist"},
           {<<"dist", "a">>, <<"dist/assets", "app.js">>},
           <<Route("GET", "/portal/*", "kp1"), Route("GET", "/api/x", "kp2"),
             Route("POST", "/form", "kp3")>>, FALSE)

BarePlugin == Plugin("bare", "fallback", {}, {}, <<>>, FALSE)

GhostPlugin == Plugin("ghost", "none", {"dist"}, {}, <<>>, FALSE)

TeePlugin == Plugin("phala-tee-plugin", "fallback", {"public"}, {}, <<>>, FALSE)

TeeThrowingPlugin == Plugin("phala-tee-plugin", "none", {}, {}, <<>>, TRUE)

\* stop: "ok" returns, "throws" throws synchronously, "hangs" returns a
\* promise that never settles.
Runtime(id, ch, hp, ps, rs, st) ==
    [agentId |-> id, character |-> ch, hasPlugins |-> hp, plugins |-> ps,
     routes |-> rs, stop |-> st]

HandleTable ==
    << Runtime("a1", TRUE, TRUE, <<PortalPlugin>>,
               <<Route("GET", "/a", "k1"), Route("FOO", "/x", "k2"),
                 Route("POST", "/b", "k3")>>, "ok"),
       Runtime("a1", TRUE, TRUE, <<BarePlugin, GhostPlugin>>,
               <<Route("STATIC", "/a", "k4"), Route("DELETE", "/b", "k12")>>,
               "throws"),
       Runtime("a2", TRUE, TRUE, <<TeePlugin>>,
               <<Route("GET", "/a", "k5"), BadRoute("GET", "/(", "k6"),
                 Route("PUT", "/c", "k7")>>, "hangs"),
       Runtime("", TRUE, TRUE, <<>>, <<Route("GET", "/a", "k8")>>, "ok"),
       Runtime("a2", FALSE, TRUE, <<>>, <<Route("GET", "/a", "k9")>>, "ok"),
       Runtime("a1", TRUE, FALSE, <<>>, <<Route("GET", "/a", "k10")>>, "ok"),
       Runtime("a2", TRUE, TRUE, <<TeeThrowingPlugin>>,
               <<Route("DELETE", "/b", "k11")>>, "ok") >>

Handles == DOMAIN HandleTable

NoHandle == 0     \* null / undefined

AgentIds == {"", "a1", "a2"}

VARIABLES
    agents,     \* this.agents: the Map, as its entries in insertion order
    cur,        \* which express application this.app refers to
    apps,       \* the layer stack of each express application created
    dbState,    \* this.database.init(): "pending", "ok" or "failed"
    servers,    \* the listeners created by start; this.server is the last
    log,        \* what the shutdown handlers did, in order
    proc,       \* the process: exited, exit status, what exited it
    events,     \* registerAgent calls that passed the input checks,
                \* registerMiddleware calls and signals so far
    last        \* the last call: operation, handle or listener, outcome

vars == <<agents, cur, apps, dbState, servers, log, proc, events, last>>

(***************************************************************************)
(* The Map of agents: set keeps the position of a key it already holds and *)
(* appends a new one; delete removes the key.                              *)
(***************************************************************************)
MapHas(m, k) == \E i \in DOMAIN m : m[i].id = k

MapGet(m, k) == m[CHOOSE i \in DOMAIN m : m[i].id = k].h

\* a set that appends even when the key is held
MapSetAppend(m, k, v) == Append(m, [id |-> k, h |-> v])

MapSet(m, k, v) ==
    IF MapHas(m, k)
    THEN [i \in DOMAIN m |-> IF m[i].id = k THEN [id |-> k, h |-> v] ELSE m[i]]
    ELSE Append(m, [id |-> k, h |-> v])

\* a delete that empties the Map
MapDeleteKeepNone(e, k) == FALSE

MapDeleteKeep(e, k) == e.id # k

MapDelete(m, k) == SelectSeq(m, LAMBDA e : MapDeleteKeep(e, k))

MapCount(m, k) == Cardinality({i \in DOMAIN m : m[i].id = k})

(***************************************************************************)
(* Layers of an express application, in the order app.use / app.get / ...  *)
(* added them.  kind: "mw" (middleware), "static" (express.static mounted  *)
(* at path, serving files of directory handler) or "route" (method, path,  *)
(* the descriptor's handler and the runtime its wrapper closes over).      *)
(***************************************************************************)
MwLayer(n) ==
    [kind |-> "mw", method |-> "", path |-> "", handler |-> n,
     agent |-> NoHandle, files |-> {}]

StaticLayer(mount, dir, fs) ==
    [kind |-> "static", method |-> "GET", path |-> mount, handler |-> dir,
     agent |-> NoHandle, files |-> fs]

\* a wrapper that does not pass the runtime it was created for
RouteLayerNoRuntime(m, p, k, h) ==
    [kind |-> "route", method |-> m, path |-> p, handler |-> k,
     agent |-> NoHandle, files |-> {}]

RouteLayer(m, p, k, h) ==
    [kind |-> "route", method |-> m, path |-> p, handler |-> k,
     agent |-> h, files |-> {}]

RouteTypes == {"STATIC", "GET", "POST", "PUT", "DELETE"}

\* a switch that has no case for STATIC of its own
BindMethodIdentity(t) == t

\* the app method the switch on route.type calls
BindMethod(t) == IF t = "STATIC" THEN "GET" ELSE t

(***************************************************************************)
(* registerAgent, lines 373-416: the loop over runtime.routes from         *)
(* descriptor i on.  An unknown type is skipped (continue); a binding that *)
(* throws ends the loop with the error rethrown.                           *)
(***************************************************************************)
\* a loop that an unknown type ends (break instead of continue)
RECURSIVE MountRoutesUnknownEnds(_, _, _, _)
MountRoutesUnknownEnds(stack, routes, i, h) ==
    IF i > Len(routes) THEN [stack |-> stack, err |-> "none"]
    ELSE LET r == routes[i] IN
         IF r.type \notin RouteTypes
         THEN [stack |-> stack, err |-> "none"]
         ELSE IF r.bad
              THEN [stack |-> stack, err |-> "RouteBindError"]
              ELSE MountRoutesUnknownEnds(
                       Append(stack, RouteLayer(BindMethod(r.type), r.path,
                                                r.handler, h)),
                       routes, i + 1, h)

\* a loop whose catch logs the error and goes on to the next descriptor
RECURSIVE MountRoutesSwallowsError(_, _, _, _)
MountRoutesSwallowsError(stack, routes, i, h) ==
    IF i > Len(routes) THEN [stack |-> stack, err |-> "none"]
    ELSE LET r == routes[i] IN
         IF r.type \notin RouteTypes \/ r.bad
         THEN MountRoutesSwallowsError(stack, routes, i + 1, h)
         ELSE MountRoutesSwallowsError(
                  Append(stack, RouteLayer(BindMethod(r.type), r.path,
                                           r.handler, h)),
                  routes, i + 1, h)

RECURSIVE MountRoutes(_, _, _, _)
MountRoutes(stack, routes, i, h) ==
    IF i > Len(routes) THEN [stack |-> stack, err |-> "none"]
    ELSE LET r == routes[i] IN
         IF r.type \notin RouteTypes
         THEN MountRoutes(stack, routes, i + 1, h)
         ELSE IF r.bad
              THEN [stack |-> stack, err |-> "RouteBindError"]
              ELSE MountRoutes(
                       Append(stack, RouteLayer(BindMethod(r.type), r.path,
                                                r.handler, h)),
                       routes, i + 1, h)

\* runtime.plugins.find(p => p.name === "phala-tee-plugin"), then the push
\* of its providers and actions into the runtime.
TeePushFails(rt) ==
    \E i \in DOMAIN rt.plugins :
        /\ rt.plugins[i].name = "phala-tee-plugin"
        /\ \A j \in 1..(i - 1) : rt.plugins[j].name # "phala-tee-plugin"
        /\ rt.plugins[i].pushThrows

InvalidAgentErrors == {"NullRuntime", "MissingAgentId", "MissingCharacter"}

\* input checks without the one on runtime.character
InputCheckNoCharacter(h) ==
    IF h = NoHandle THEN "NullRuntime"
    ELSE IF HandleTable[h].agentId = "" THEN "MissingAgentId"
    ELSE "none"

\* the three input checks of registerAgent, in their order
InputCheck(h) ==
    IF h = NoHandle THEN "NullRuntime"
    ELSE IF HandleTable[h].agentId = "" THEN "MissingAgentId"
    ELSE IF ~HandleTable[h].character THEN "MissingCharacter"
    ELSE "none"

\* the registry after registerAgent(h) passed the input checks
StoreAgent(m, h) == MapSet(m, HandleTable[h].agentId, h)

(***************************************************************************)
(* registerAgent(h) as a function of the registry and of the stack of      *)
(* this.app: the registry and stack it leaves, and the error it throws.    *)
(***************************************************************************)
\* a registerAgent that stores the handle last, once nothing has thrown
RegisterAgentResultStoresLast(m, stack, h) ==
    IF InputCheck(h) # "none"
    THEN [agents |-> m, stack |-> stack, err |-> InputCheck(h)]
    ELSE LET rt == HandleTable[h]
         IN  IF ~rt.hasPlugins
             THEN [agents |-> m, stack |-> stack, err |-> "TypeError"]
             ELSE IF TeePushFails(rt)
             THEN [agents |-> m, stack |-> stack, err |-> "PushError"]
             ELSE LET mr == MountRoutes(stack, rt.routes, 1, h)
                  IN  [agents |-> IF mr.err = "none" THEN StoreAgent(m, h)
                                  ELSE m,
                       stack |-> mr.stack, err |-> mr.err]

RegisterAgentResult(m, stack, h) ==
    IF InputCheck(h) # "none"
    THEN [agents |-> m, stack |-> stack, err |-> InputCheck(h)]
    ELSE LET rt == HandleTable[h]
             m2 == StoreAgent(m, h)
         IN  IF ~rt.hasPlugins
             THEN [agents |-> m2, stack |-> stack, err |-> "TypeError"]
             ELSE IF TeePushFails(rt)
             THEN [agents |-> m2, stack |-> stack, err |-> "PushError"]
             ELSE LET mr == MountRoutes(stack, rt.routes, 1, h)
                  IN  [agents |-> m2, stack |-> mr.stack, err |-> mr.err]

(***************************************************************************)
(* initializeServer, lines 229-317: the Asset Resolver.                    *)
(***************************************************************************)
Cand(p, m) == [path |-> p, mount |-> m]

CommonDirs ==
    << Cand("dist/assets", "/assets"), Cand("frontend/dist", "/"),
       Cand("dist/client", "/"), Cand("dist", "/"), Cand("public", "/"),
       Cand("static", "/"), Cand("assets", "/assets") >>

\* plugin.routes.filter(...): GET routes ending in "/*" or outside "api/"
IsStaticRoute(r) ==
    r.type = "GET" /\ (EndsWith(r.path, "/*") \/ ~Includes(r.path, "api/"))

\* the route's path without the trailing "/*" and the leading "/"
BasePath(path) ==
    LET a == IF EndsWith(path, "/*") THEN SubSeq(path, 1, Len(path) - 2)
             ELSE path
    IN  IF StartsWith(a, "/") THEN SubSeq(a, 2, Len(a)) ELSE a

RECURSIVE RouteCands(_, _)
RouteCands(routes, i) ==
    IF i > Len(routes) THEN <<>>
    ELSE LET r == routes[i]
             b == BasePath(r.path)
         IN  IF IsStaticRoute(r) /\ b # ""
             THEN <<Cand(b \o "/dist", "/" \o b)>> \o RouteCands(routes, i + 1)
             ELSE RouteCands(routes, i + 1)

\* commonDirs after the pushes of the route-derived candidates
Candidates(pl) == CommonDirs \o RouteCands(pl.routes, 1)

PluginFiles(pl, d) == {f[2] : f \in {g \in pl.files : g[1] = d}}

\* a loop that stops at the first candidate that exists
MountExistingFirstOnly(pl, cands, i) ==
    IF \E j \in i..Len(cands) : cands[j].path \in pl.dirs
    THEN LET j == CHOOSE j \in i..Len(cands) :
                     /\ cands[j].path \in pl.dirs
                     /\ \A k \in i..(j - 1) : cands[k].path \notin pl.dirs
         IN  <<StaticLayer(cands[j].mount, pl.name \o "/" \o cands[j].path,
                           PluginFiles(pl, cands[j].path))>>
    ELSE <<>>

RECURSIVE MountExisting(_, _, _)
MountExisting(pl, cands, i) ==
    IF i > Len(cands) THEN <<>>
    ELSE IF cands[i].path \in pl.dirs
         THEN <<StaticLayer(cands[i].mount, pl.name \o "/" \o cands[i].path,
                            PluginFiles(pl, cands[i].path))>>
              \o MountExisting(pl, cands, i + 1)
         ELSE MountExisting(pl, cands, i + 1)

\* the static mounts one plugin contributes
PluginMounts(pl) ==
    IF pl.name = "" \/ pl.resolve = "none" THEN <<>>
    ELSE MountExisting(pl, Candidates(pl), 1)

RECURSIVE PluginsMounts(_, _)
PluginsMounts(ps, i) ==
    IF i > Len(ps) THEN <<>>
    ELSE PluginMounts(ps[i]) \o PluginsMounts(ps, i + 1)

\* the loop over this.agents
RECURSIVE AgentsMounts(_, _)
AgentsMounts(m, i) ==
    IF i > Len(m) THEN <<>>
    ELSE LET rt == HandleTable[m[i].h]
         IN  (IF rt.hasPlugins THEN PluginsMounts(rt.plugins, 1) ELSE <<>>)
             \o AgentsMounts(m, i + 1)

\* options.middlewares of the constructor call
OptionsMiddlewares == <<"custom">>

(***************************************************************************)
(* initializeServer, lines 149-227: the stack of the fresh express         *)
(* application up to the client build's static root.                       *)
(***************************************************************************)
FrontStack ==
    [i \in DOMAIN OptionsMiddlewares |-> MwLayer(OptionsMiddlewares[i])]
    \o << MwLayer("cors"), MwLayer("bodyParser.json"),
          MwLayer("bodyParser.urlencoded"), MwLayer("express.json"),
          StaticLayer("/media/uploads", "uploads", {}),
          StaticLayer("/media/generated", "generatedImages", {}),
          MwLayer("contentType"),
          StaticLayer("/", "client", {"index.html"}) >>

\* the whole stack initializeServer builds on the application it creates
InitializedStack(m) == FrontStack \o AgentsMounts(m, 1)

(***************************************************************************)
(* Dispatch of a request by an express application: the first layer that   *)
(* answers it.  A middleware calls next; a static mount answers a GET for  *)
(* a file it holds; a route answers its method and path and never calls    *)
(* next (the wrapper passes no next to the handler).                       *)
(***************************************************************************)
UrlOf(mount, f) == IF mount = "/" THEN "/" \o f ELSE mount \o "/" \o f

Answers(l, method, path) ==
    \/ l.kind = "route" /\ l.method = method /\ l.path = path
    \/ l.kind = "static" /\ method = "GET"
          /\ \E f \in l.files : UrlOf(l.path, f) = path

NoLayer ==
    [kind |-> "none", method |-> "", path |-> "", handler |-> "",
     agent |-> NoHandle, files |-> {}]

Dispatch(stack, method, path) ==
    IF \E i \in DOMAIN stack : Answers(stack[i], method, path)
    THEN stack[CHOOSE i \in DOMAIN stack :
                  /\ Answers(stack[i], method, path)
                  /\ \A j \in 1..(i - 1) : ~Answers(stack[j], method, path)]
    ELSE NoLayer

(***************************************************************************)
(* start(port), lines 463-481.  A port value is its typeof, its integer    *)
(* part and whether it has a fractional part (1.5 is Num(1) with frac).    *)
(***************************************************************************)
Port(t, v, f) == [t |-> t, v |-> v, frac |-> f]

PortTable ==
    << Port("undefined", 0, FALSE), Port("number", 0, FALSE),
       Port("number", -1, FALSE), Port("number", 3000, FALSE) >>

\* !port
Falsy(p) == p.t = "undefined" \/ (p.t = "number" /\ p.v = 0 /\ ~p.frac)

\* the guard of line 465
PortGuardFails(p) == Falsy(p) \/ p.t # "number"

\* net.Server.listen validates the port and throws ERR_SOCKET_BAD_PORT
ListenThrows(p) == p.frac \/ p.v < 0 \/ p.v > MaxPort

\* what start(port) throws
StartError(p) ==
    IF PortGuardFails(p) THEN "InvalidPort"
    ELSE IF ListenThrows(p) THEN "ERR_SOCKET_BAD_PORT"
    ELSE "none"

\* the claim's reading of a port start must accept
PositiveInteger(p) == p.t = "number" /\ ~p.frac /\ p.v > 0

(***************************************************************************)
(* gracefulShutdown, lines 484-509: what one run of the handler does, as   *)
(* events.  agent.stop() is not awaited, so the run is synchronous: a stop *)
(* that throws is caught, one whose promise never settles has returned.    *)
(***************************************************************************)
Event(e, n, r) == [ev |-> e, n |-> n, res |-> r]

StopEvent(e) == Event("stop", e.h, HandleTable[e.h].stop)

\* a loop without the try/catch: the first stop that throws ends the run
RECURSIVE StopsUntilThrow(_, _)
StopsUntilThrow(m, i) ==
    IF i > Len(m) THEN <<>>
    ELSE IF HandleTable[m[i].h].stop = "throws" THEN <<StopEvent(m[i])>>
    ELSE <<StopEvent(m[i])>> \o StopsUntilThrow(m, i + 1)

DrainEventsNoCatch(m, srv) ==
    IF \E i \in DOMAIN m : HandleTable[m[i].h].stop = "throws"
    THEN StopsUntilThrow(m, 1)
    ELSE [i \in DOMAIN m |-> StopEvent(m[i])]
         \o <<Event("close", srv, ""), Event("timer", GraceMs, "")>>

\* a run that arms no grace timer
DrainEventsNoTimer(m, srv) ==
    [i \in DOMAIN m |-> StopEvent(m[i])] \o <<Event("close", srv, "")>>

\* a run whose loop misses the first entry of the registry
DrainEventsSkipsFirst(m, srv) ==
    [i \in 1..(Len(m) - 1) |-> StopEvent(m[i + 1])]
    \o <<Event("close", srv, ""), Event("timer", GraceMs, "")>>

DrainEvents(m, srv) ==
    [i \in DOMAIN m |-> StopEvent(m[i])]
    \o <<Event("close", srv, ""), Event("timer", GraceMs, "")>>

\* process.on(sig, gracefulShutdown) ran once per start: one signal runs
\* the handler n times
RECURSIVE RunHandlers(_, _, _)
RunHandlers(m, srv, n) ==
    IF n = 0 THEN <<>>
    ELSE DrainEvents(m, srv) \o RunHandlers(m, srv, n - 1)

CountEv(l, e) == Cardinality({i \in DOMAIN l : l[i].ev = e})

CountStops(l, h) ==
    Cardinality({i \in DOMAIN l : l[i].ev = "stop" /\ l[i].n = h})

Exited(c, by) == [exited |-> TRUE, code |-> c, by |-> by]

Call(op, arg, sarg, err) ==
    [op |-> op, arg |-> arg, sarg |-> sarg, err |-> err, handler |-> "",
     agent |-> NoHandle]

Init ==
    /\ agents = <<>>
    /\ cur = 0
    /\ apps = [a \in {0, 1} |-> <<>>]
    /\ dbState = "pending"
    /\ servers = <<>>
    /\ log = <<>>
    /\ proc = [exited |-> FALSE, code |-> 0, by |-> ""]
    /\ events = 0
    /\ last = Call("constructor", 0, "", "none")

(***************************************************************************)
(* The constructor's database.init() settles.                              *)
(***************************************************************************)
StoreInitOk ==
    /\ ~proc.exited
    /\ dbState = "pending"
    /\ dbState' = "ok"
    /\ cur' = 1
    /\ apps' = [apps EXCEPT ![1] = InitializedStack(agents)]
    /\ last' = Call("initializeServer", 0, "", "none")
    /\ UNCHANGED <<agents, servers, log, proc, events>>

\* The catch handler rethrows: the rejection is unhandled, which ends the
\* process (status 1) or only warns, by the runtime's unhandled-rejections
\* mode.
StoreInitFails(crash) ==
    /\ ~proc.exited
    /\ dbState = "pending"
    /\ dbState' = "failed"
    /\ proc' = IF crash THEN Exited(1, "unhandledRejection") ELSE proc
    /\ last' = Call("initFailed", 0, "", "StoreInitFailure")
    /\ UNCHANGED <<agents, cur, apps, servers, log, events>>

RegisterAgent(h) ==
    /\ ~proc.exited
    /\ InputCheck(h) # "none" \/ events < MaxEvents
    /\ LET r == RegisterAgentResult(agents, apps[cur], h)
       IN  /\ agents' = r.agents
           /\ apps' = [apps EXCEPT ![cur] = r.stack]
           /\ last' = Call("registerAgent", h, "", r.err)
    /\ events' = IF InputCheck(h) = "none" THEN events + 1 ELSE events
    /\ UNCHANGED <<cur, dbState, servers, log, proc>>

UnregisterAgent(id) ==
    /\ ~proc.exited
    /\ agents' = IF id = "" THEN agents ELSE MapDelete(agents, id)
    /\ last' = Call("unregisterAgent", 0, "", "none")
    /\ UNCHANGED <<cur, apps, dbState, servers, log, proc, events>>

RegisterMiddleware ==
    /\ ~proc.exited
    /\ events < MaxEvents
    /\ events' = events + 1
    /\ apps' = [apps EXCEPT ![cur] = Append(@, MwLayer("user"))]
    /\ last' = Call("registerMiddleware", 0, "", "none")
    /\ UNCHANGED <<agents, cur, dbState, servers, log, proc>>

\* A port that start's guard and listen accept is free unless a listener
\* of this server holds it; listening on a held port emits EADDRINUSE as an
\* 'error' event nobody listens to, which ends the process.  The server is
\* not started again once its listener was asked to close.
Start(i) ==
    /\ ~proc.exited
    /\ LET e == StartError(PortTable[i])
           held == e = "none"
                   /\ \E s \in DOMAIN servers : servers[s].state = "listening"
       IN  /\ (e = "none" /\ servers # <<>>) => held
           /\ servers' = IF e = "none" /\ ~held
                         THEN Append(servers, [app |-> cur, state |-> "listening"])
                         ELSE servers
           /\ proc' = IF held THEN Exited(1, "uncaughtException") ELSE proc
           /\ last' = Call("start", 0, "", IF held THEN "EADDRINUSE" ELSE e)
    /\ UNCHANGED <<agents, cur, apps, dbState, log, events>>

\* stop(): this.server.close with a callback that only logs
Stop ==
    /\ ~proc.exited
    /\ servers' = IF servers # <<>> /\ servers[Len(servers)].state = "listening"
                  THEN [servers EXCEPT ![Len(servers)].state = "closing"]
                  ELSE servers
    /\ last' = Call("stop", 0, "", "none")
    /\ UNCHANGED <<agents, cur, apps, dbState, log, proc, events>>

\* SIGTERM or SIGINT arrives after start installed the handlers.  A close
\* asked of a listener that stop() already closed still runs its callback,
\* so the listener counts as closing again.
Signal(sig) ==
    /\ ~proc.exited
    /\ servers # <<>>
    /\ events < MaxEvents
    /\ events' = events + 1
    /\ log' = log \o RunHandlers(agents, Len(servers), Len(servers))
    /\ servers' = [servers EXCEPT ![Len(servers)].state = "closing"]
    /\ last' = Call("signal", 0, "", "none")
    /\ UNCHANGED <<agents, cur, apps, dbState, proc>>

\* the listener asked to close has no connection left: the close callbacks
\* run; the first one a shutdown handler registered exits, the one of
\* stop() only logs
ListenerClosed ==
    /\ ~proc.exited
    /\ servers # <<>>
    /\ servers[Len(servers)].state = "closing"
    /\ servers' = [servers EXCEPT ![Len(servers)].state = "closed"]
    /\ proc' = IF CountEv(log, "close") > 0 THEN Exited(ExitClean, "close")
               ELSE proc
    /\ last' = Call("closeCallback", 0, "", "none")
    /\ UNCHANGED <<agents, cur, apps, dbState, log, events>>

\* a grace timer armed by a run of the handler fires
GraceTimerFires ==
    /\ ~proc.exited
    /\ CountEv(log, "timer") > 0
    /\ proc' = Exited(ExitForced, "timer")
    /\ last' = Call("timerCallback", 0, "", "none")
    /\ UNCHANGED <<agents, cur, apps, dbState, servers, log, events>>

Requests == {<<"GET", "/a">>, <<"POST", "/b">>}

\* a request arrives at listener s, which serves the application it was
\* created with
Request(s, method, path) ==
    /\ ~proc.exited
    /\ s \in DOMAIN servers
    /\ servers[s].state = "listening"
    /\ LET l == Dispatch(apps[servers[s].app], method, path)
       IN  last' = [op |-> "request", arg |-> s, sarg |-> method \o " " \o path,
                    err |-> IF l.kind = "none" THEN "404" ELSE "none",
                    handler |-> l.handler, agent |-> l.agent]
    /\ UNCHANGED <<agents, cur, apps, dbState, servers, log, proc,
                   events>>

Next ==
    \/ StoreInitOk
    \/ \E crash \in BOOLEAN : StoreInitFails(crash)
    \/ \E h \in Handles \cup {NoHandle} : RegisterAgent(h)
    \/ \E id \in AgentIds : UnregisterAgent(id)
    \/ RegisterMiddleware
    \/ \E i \in DOMAIN PortTable : Start(i)
    \/ Stop
    \/ \E sig \in {"SIGTERM", "SIGINT"} : Signal(sig)
    \/ ListenerClosed
    \/ GraceTimerFires
    \/ \E s \in DOMAIN servers, r \in Requests : Request(s, r[1], r[2])

Spec == Init /\ [][Next]_vars

\* the event loop runs a timer that is due
FairSpec == Spec /\ WF_vars(GraceTimerFires)

(***************************************************************************)
(* Derived views of the state.                                             *)
(***************************************************************************)
\* the HTTP layer the server exposes: the stack of this.app
Exposed == apps[cur]

\* a is a prefix of b
IsPrefix(a, b) == Len(a) <= Len(b) /\ SubSeq(b, 1, Len(a)) = a

\* the lifecycle state the code is in (it keeps no such field)
Lifecycle ==
    IF proc.exited THEN "Stopped"
    ELSE IF log # <<>> THEN "Draining"
    ELSE IF servers # <<>> THEN "Running"
    ELSE IF dbState = "ok" THEN "Ready"
    ELSE IF dbState = "pending" THEN "Initializing"
    ELSE "Failed"

\* registerAgent(h) passes the input checks and nothing after them throws
CleanHandle(h) ==
    /\ h # NoHandle
    /\ HandleTable[h].agentId # ""
    /\ HandleTable[h].character
    /\ HandleTable[h].hasPlugins
    /\ \A i \in DOMAIN HandleTable[h].plugins :
           ~HandleTable[h].plugins[i].pushThrows
    /\ \A i \in DOMAIN HandleTable[h].routes : ~HandleTable[h].routes[i].bad

(***************************************************************************)
(* C1.  The registry holds at most one handle per agent identifier, and    *)
(* right after a successful registerAgent(h) it holds h.agentId exactly    *)
(* once, mapped to h: a second handle under the same identifier replaces   *)
(* the first.                                                              *)
(***************************************************************************)
C1_OneHandlePerId ==
    /\ \A id \in AgentIds : MapCount(agents, id) <= 1
    /\ (last.op = "registerAgent" /\ last.err = "none")
          => /\ MapCount(agents, HandleTable[last.arg].agentId) = 1
             /\ MapGet(agents, HandleTable[last.arg].agentId) = last.arg

\* handle 2 was registered after handle 1 under the same identifier
C1_Witness ==
    /\ last.op = "registerAgent" /\ last.err = "none" /\ last.arg = 2
    /\ \E i \in DOMAIN Exposed : Exposed[i].agent = 1
    /\ agents = <<[id |-> "a1", h |-> 2]>>

(***************************************************************************)
(* C2.  registerAgent of an absent handle, of a handle without agentId or  *)
(* of one without character throws, and leaves the registry and every      *)
(* application's layers as they were.                                      *)
(***************************************************************************)
C2_InvalidAgentChangesNothing ==
    [][\A h \in Handles \cup {NoHandle} :
          (/\ \/ h = NoHandle
              \/ HandleTable[h].agentId = ""
              \/ ~HandleTable[h].character
           /\ last'.op = "registerAgent" /\ last'.arg = h
           /\ RegisterAgent(h))
          => /\ last'.err \in InvalidAgentErrors
             /\ agents' = agents
             /\ apps' = apps]_vars

\* an invalid registration was refused with an agent and routes in place
C2_Witness ==
    /\ last.op = "registerAgent" /\ last.err = "MissingCharacter"
    /\ agents # <<>>
    /\ \E i \in DOMAIN Exposed : Exposed[i].kind = "route"

(***************************************************************************)
(* C3.  Two termination signals run one drain: every agent is stopped at   *)
(* most once, the listener is asked to close once, one grace timer is      *)
(* armed.  (The process exits once in any case: process.exit ends it.)     *)
(***************************************************************************)
C3_OneDrain ==
    /\ CountEv(log, "close") <= 1
    /\ CountEv(log, "timer") <= 1
    /\ \A h \in Handles : CountStops(log, h) <= 1

(***************************************************************************)
(* C4.  One run of the shutdown handler invokes the stop of every agent in *)
(* the registry, whether or not an earlier stop threw, and only then asks  *)
(* the listener to close.                                                  *)
(***************************************************************************)
C4_StopsThenClose ==
    [][\A sig \in {"SIGTERM", "SIGINT"} :
          (last'.op = "signal" /\ Signal(sig)) =>
             LET run == SubSeq(log', Len(log) + 1, Len(log'))
             IN  \E c \in DOMAIN run :
                    /\ run[c].ev = "close"
                    /\ \A j \in 1..(c - 1) : run[j].ev = "stop"
                    /\ \A i \in DOMAIN agents :
                          \E j \in 1..(c - 1) : run[j].n = agents[i].h]_vars

\* a stop threw, the next agent was stopped all the same, then the close
C4_Witness ==
    \E i \in DOMAIN log :
        /\ log[i].ev = "stop" /\ log[i].res = "throws"
        /\ i + 2 \in DOMAIN log
        /\ log[i + 1].ev = "stop"
        /\ log[i + 2].ev = "close"

(***************************************************************************)
(* C5.  Once a shutdown was triggered the process exits; it exits with     *)
(* status 0 exactly when the listener's close completed first, with status *)
(* 1 when the grace timer fired first, and with status 1 whenever the      *)
(* listener did not close.                                                 *)
(***************************************************************************)
C5_ExitRace ==
    /\ (log # <<>>) ~> proc.exited
    /\ [](proc.exited /\ log # <<>>
            => /\ proc.code = ExitClean <=> proc.by = "close"
               /\ proc.by = "timer" => proc.code = ExitForced
               /\ servers[Len(servers)].state # "closed"
                     => proc.code = ExitForced)

\* the listener was asked to close, did not, and the timer exited
C5_Witness ==
    /\ proc.exited /\ proc.by = "timer" /\ proc.code = ExitForced
    /\ servers # <<>> /\ servers[Len(servers)].state = "closing"

(***************************************************************************)
(* C6.  When the stop of a registered agent never completes, the exit      *)
(* status of the shutdown is not zero.                                     *)
(***************************************************************************)
C6_HungStopExitsNonZero ==
    (/\ proc.exited
     /\ \E i \in DOMAIN log : log[i].ev = "stop" /\ log[i].res = "hangs")
    => proc.code # 0

(***************************************************************************)
(* C7.  start(port) fails with InvalidPort for every port that is missing  *)
(* or not a positive integer, binding no listener and leaving the          *)
(* lifecycle state as it was; the first start with a valid port binds a    *)
(* listener and the server is Running.                                     *)
(***************************************************************************)
C7_InvalidPortRefused ==
    [][\A i \in DOMAIN PortTable :
          Start(i) =>
             IF ~PositiveInteger(PortTable[i])
             THEN /\ last'.err = "InvalidPort"
                  /\ servers' = servers
                  /\ Lifecycle' = Lifecycle
             ELSE (servers = <<>> /\ PortTable[i].v <= MaxPort)
                     => /\ last'.err = "none"
                        /\ Len(servers') = 1
                        /\ servers'[1].state = "listening"
                        /\ (log = <<>> => Lifecycle' = "Running")]_vars

(***************************************************************************)
(* C8.  Mounting is additive: the layers of the HTTP layer the server      *)
(* exposes are, in every later state of the running process, still there   *)
(* and in the order they were added.                                       *)
(***************************************************************************)
C8_MountingAdditive ==
    [][~proc'.exited => IsPrefix(Exposed, Exposed')]_vars

(***************************************************************************)
(* C9 as claimed.  Every STATIC or GET binding of the exposed application  *)
(* answers a GET to its path itself, with the handle that registered it,   *)
(* whatever else was mounted on the same path.                             *)
(***************************************************************************)
C9_OwnHandlerAlways ==
    \A i \in DOMAIN Exposed :
        (Exposed[i].kind = "route" /\ Exposed[i].method = "GET")
        => Dispatch(Exposed, "GET", Exposed[i].path) = Exposed[i]

\* handle h declares a STATIC or GET descriptor with this path and handler
Declares(h, path, k) ==
    /\ h \in Handles
    /\ \E i \in DOMAIN HandleTable[h].routes :
          /\ HandleTable[h].routes[i].type \in {"STATIC", "GET"}
          /\ HandleTable[h].routes[i].path = path
          /\ HandleTable[h].routes[i].handler = k

(***************************************************************************)
(* C9 as amended.  In each application, a GET to the path of a STATIC or   *)
(* GET binding is answered by the first layer that matches it: by the      *)
(* binding itself when no earlier layer matches, and when the answering    *)
(* layer is a route, its handler receives the handle that declared it.     *)
(***************************************************************************)
C9_FirstMatchWithOwner ==
    \A a \in DOMAIN apps : \A i \in DOMAIN apps[a] :
        LET l == apps[a][i]
            d == Dispatch(apps[a], "GET", l.path)
        IN  (l.kind = "route" /\ l.method = "GET")
            => /\ d.kind # "none"
               /\ (\A j \in 1..(i - 1) : ~Answers(apps[a][j], "GET", l.path))
                     => (d = l /\ Declares(l.agent, l.path, l.handler))
               /\ d.kind = "route" => Declares(d.agent, l.path, d.handler)

\* a GET /a was answered by handle 1's handler although handle 2 mounted
\* the same path later on the application that served it
C9_Witness ==
    /\ last.op = "request" /\ last.handler = "k1" /\ last.agent = 1
    /\ \E i \in DOMAIN apps[servers[last.arg].app] :
          apps[servers[last.arg].app][i].handler = "k4"

(***************************************************************************)
(* C10.  A descriptor of unknown type in a registerAgent call is skipped:  *)
(* when nothing else in the call fails, the call does not throw, the agent *)
(* is in the registry, and every descriptor of a recognized type of the    *)
(* call, before or after the unknown one, is mounted.                      *)
(***************************************************************************)
C10_UnknownTypeSkipped ==
    [][\A h \in Handles :
          (/\ CleanHandle(h)
           /\ \E i \in DOMAIN HandleTable[h].routes :
                 HandleTable[h].routes[i].type \notin RouteTypes
           /\ last'.op = "registerAgent" /\ last'.arg = h
           /\ RegisterAgent(h))
          => LET rs == HandleTable[h].routes
                 new == SubSeq(apps'[cur], Len(apps[cur]) + 1, Len(apps'[cur]))
             IN  /\ last'.err = "none"
                 /\ MapHas(agents', HandleTable[h].agentId)
                 /\ MapGet(agents', HandleTable[h].agentId) = h
                 /\ \A i \in DOMAIN rs :
                       rs[i].type \in RouteTypes
                       => \E j \in DOMAIN new :
                             /\ new[j].kind = "route"
                             /\ new[j].path = rs[i].path
                             /\ new[j].handler = rs[i].handler
                             /\ new[j].agent = h
                 /\ \A j \in DOMAIN new :
                       \E i \in DOMAIN rs :
                          /\ rs[i].type \in RouteTypes
                          /\ rs[i].handler = new[j].handler]_vars

\* handle 1 (GET, unknown, POST) was registered: both known routes are in
C10_Witness ==
    /\ last.op = "registerAgent" /\ last.arg = 1 /\ last.err = "none"
    /\ \E i \in DOMAIN Exposed : Exposed[i].handler = "k1"
    /\ \E i \in DOMAIN Exposed : Exposed[i].handler = "k3"
    /\ \A i \in DOMAIN Exposed : Exposed[i].handler # "k2"

\* every descriptor of handle h has a recognized type
AllRecognized(h) ==
    \A i \in DOMAIN HandleTable[h].routes :
        HandleTable[h].routes[i].type \in RouteTypes

(***************************************************************************)
(* C11.  A registerAgent call that succeeds for a handle whose N           *)
(* descriptors all have a recognized type appends exactly N route bindings *)
(* to this.app, one per descriptor in declared order, STATIC and GET both  *)
(* as GET bindings, and touches no other layer and no other application.   *)
(***************************************************************************)
C11_OneBindingPerDescriptor ==
    [][\A h \in Handles :
          (/\ CleanHandle(h)
           /\ AllRecognized(h)
           /\ last'.op = "registerAgent" /\ last'.arg = h
           /\ RegisterAgent(h))
          => LET rs == HandleTable[h].routes
                 new == SubSeq(apps'[cur], Len(apps[cur]) + 1, Len(apps'[cur]))
             IN  /\ last'.err = "none"
                 /\ IsPrefix(apps[cur], apps'[cur])
                 /\ Len(new) = Len(rs)
                 /\ \A i \in DOMAIN rs :
                       /\ new[i].kind = "route"
                       /\ new[i].method = IF rs[i].type \in {"STATIC", "GET"}
                                          THEN "GET" ELSE rs[i].type
                       /\ new[i].path = rs[i].path
                       /\ new[i].handler = rs[i].handler
                       /\ new[i].agent = h
                 /\ \A a \in DOMAIN apps : a # cur => apps'[a] = apps[a]]_vars

\* handle 2 (STATIC /a, DELETE /b) was registered: a GET binding followed
\* by a DELETE binding
C11_Witness ==
    /\ last.op = "registerAgent" /\ last.arg = 2 /\ last.err = "none"
    /\ \E i \in DOMAIN Exposed :
          /\ i + 1 \in DOMAIN Exposed
          /\ Exposed[i].handler = "k4" /\ Exposed[i].method = "GET"
          /\ Exposed[i + 1].handler = "k12" /\ Exposed[i + 1].method = "DELETE"
          /\ Exposed[i + 1].agent = 2

(***************************************************************************)
(* C12.  unregisterAgent with an empty id changes nothing; with another id *)
(* it removes that id from the registry and nothing else: every other      *)
(* entry keeps its handle, every application keeps its layers, and a      *)
(* request for a route the unregistered handle mounted is dispatched as    *)
(* before the call.                                                        *)
(***************************************************************************)
C12_UnregisterOnlyRegistry ==
    [][\A id \in AgentIds :
          (last'.op = "unregisterAgent" /\ UnregisterAgent(id))
          => /\ apps' = apps
             /\ id = "" => agents' = agents
             /\ id # "" =>
                   /\ ~MapHas(agents', id)
                   /\ ~MapHas(agents, id) => agents' = agents
                   /\ MapHas(agents, id) =>
                         \A a \in DOMAIN apps : \A i \in DOMAIN apps[a] :
                            apps[a][i].agent = MapGet(agents, id)
                            => Dispatch(apps'[a], apps[a][i].method,
                                        apps[a][i].path)
                               = Dispatch(apps[a], apps[a][i].method,
                                          apps[a][i].path)
                   /\ Len(agents') = Len(agents) - MapCount(agents, id)
                   /\ \A k \in AgentIds \ {id} :
                         /\ MapHas(agents', k) <=> MapHas(agents, k)
                         /\ MapHas(agents, k)
                               => MapGet(agents', k) = MapGet(agents, k)]_vars

\* agent a1 was unregistered, a2 is still registered, and a GET /a is
\* answered by a1's handler with a1's handle
C12_Witness ==
    /\ last.op = "request" /\ last.handler = "k1" /\ last.agent = 1
    /\ ~MapHas(agents, "a1")
    /\ agents = <<[id |-> "a2", h |-> 3]>>

(***************************************************************************)
(* C13.  stop() on a listening server runs the shutdown sequence of a      *)
(* termination signal: the stop of every agent in the registry is invoked, *)
(* then the listener is asked to close with the callback that ends the     *)
(* process, and the grace timer is armed.                                  *)
(***************************************************************************)
C13_StopRunsDrain ==
    [][(/\ last'.op = "stop"
        /\ Stop
        /\ servers # <<>>
        /\ servers[Len(servers)].state = "listening")
       => LET run == SubSeq(log', Len(log) + 1, Len(log'))
          IN  /\ \A i \in DOMAIN agents :
                    \E j \in DOMAIN run :
                       run[j].ev = "stop" /\ run[j].n = agents[i].h
              /\ servers'[Len(servers')].state = "closing"
              /\ \E c \in DOMAIN run : run[c].ev = "close"
              /\ \E t \in DOMAIN run : run[t].ev = "timer"]_vars

\* the candidate list as the specification gives it: the seven fixed
\* directories in their order, then the route-derived ones
ProbeList(pl) ==
    << [path |-> "dist/assets", mount |-> "/assets"],
       [path |-> "frontend/dist", mount |-> "/"],
       [path |-> "dist/client", mount |-> "/"],
       [path |-> "dist", mount |-> "/"],
       [path |-> "public", mount |-> "/"],
       [path |-> "static", mount |-> "/"],
       [path |-> "assets", mount |-> "/assets"] >>
    \o RouteCands(pl.routes, 1)

\* the candidates of the list that exist under the plugin's directory
ExistingCandidates(pl) ==
    SelectSeq(ProbeList(pl), LAMBDA c : c.path \in pl.dirs)

(***************************************************************************)
(* C14.  Right after initializeServer, for every plugin of every agent in  *)
(* the registry: a plugin whose directory is not found has no mount; one   *)
(* whose directory is found has one static mount per existing candidate,   *)
(* in the order of the candidate list, whether or not an earlier candidate *)
(* existed; these mounts are on the application, every layer after the     *)
(* front is one of them, and nothing was thrown.                           *)
(***************************************************************************)
C14_MountsAreExistingCandidates ==
    last.op = "initializeServer"
    => /\ last.err = "none" /\ ~proc.exited
       /\ IsPrefix(FrontStack, apps[1])
       /\ \A e \in DOMAIN agents :
             LET rt == HandleTable[agents[e].h]
             IN  rt.hasPlugins =>
                 \A p \in DOMAIN rt.plugins :
                    LET pl == rt.plugins[p]
                        ms == PluginMounts(pl)
                        ex == ExistingCandidates(pl)
                    IN  /\ pl.resolve = "none" => ms = <<>>
                        /\ pl.resolve # "none" =>
                              /\ Len(ms) = Len(ex)
                              /\ \A i \in DOMAIN ex :
                                    /\ ms[i].kind = "static"
                                    /\ ms[i].path = ex[i].mount
                                    /\ ms[i].handler
                                          = pl.name \o "/" \o ex[i].path
                        /\ \E off \in Len(FrontStack)..Len(apps[1]) :
                              /\ off + Len(ms) <= Len(apps[1])
                              /\ SubSeq(apps[1], off + 1, off + Len(ms)) = ms
       /\ \A i \in (Len(FrontStack) + 1)..Len(apps[1]) :
             \E e \in DOMAIN agents :
                LET rt == HandleTable[agents[e].h]
                IN  /\ rt.hasPlugins
                    /\ \E p \in DOMAIN rt.plugins :
                          /\ rt.plugins[p].resolve # "none"
                          /\ \E c \in DOMAIN ExistingCandidates(rt.plugins[p]) :
                                /\ apps[1][i].kind = "static"
                                /\ apps[1][i].path
                                      = ExistingCandidates(rt.plugins[p])[c].mount
                                /\ apps[1][i].handler
                                      = rt.plugins[p].name \o "/" \o
                                        ExistingCandidates(rt.plugins[p])[c].path

\* initializeServer ran with handle 1 registered: the portal plugin got
\* its three mounts (dist/assets, dist, portal/dist) in list order
C14_Witness ==
    /\ last.op = "initializeServer"
    /\ \E e \in DOMAIN agents : agents[e].h = 1
    /\ \E i \in DOMAIN apps[1] :
          /\ i + 2 \in DOMAIN apps[1]
          /\ apps[1][i].handler = "portal/dist/assets"
          /\ apps[1][i].path = "/assets"
          /\ apps[1][i + 1].handler = "portal/dist"
          /\ apps[1][i + 1].path = "/"
          /\ apps[1][i + 2].handler = "portal/portal/dist"
          /\ apps[1][i + 2].path = "/portal"

(***************************************************************************)
(* C15.  After a registerAgent call that succeeded once the store's init   *)
(* had completed, every static mount the Asset Resolver yields for a       *)
(* plugin of the registered handle is a layer of the exposed application.  *)
(***************************************************************************)
C15_RegisterRunsResolver ==
    (last.op = "registerAgent" /\ last.err = "none" /\ dbState = "ok")
    => LET rt == HandleTable[last.arg]
       IN  \A p \in DOMAIN rt.plugins :
              \A i \in DOMAIN PluginMounts(rt.plugins[p]) :
                 \E j \in DOMAIN Exposed :
                    Exposed[j] = PluginMounts(rt.plugins[p])[i]

(***************************************************************************)
(* C16.  Whenever a listener accepts requests, the store's init has        *)
(* succeeded and the application the listener serves starts with the       *)
(* front initializeServer assembles.                                       *)
(***************************************************************************)
C16_ListeningOnlyAfterInit ==
    \A s \in DOMAIN servers :
        servers[s].state = "listening"
        => /\ dbState = "ok"
           /\ IsPrefix(FrontStack, apps[servers[s].app])

(***************************************************************************)
(* C17.  Once the store's init has failed the process has exited with a    *)
(* non-zero status, and initializeServer never ran.                        *)
(***************************************************************************)
C17_InitFailureIsFatal ==
    dbState = "failed"
    => /\ proc.exited
       /\ proc.code # ExitClean
       /\ cur = 0 /\ apps[1] = <<>>

\* descriptor i of handle h is one whose binding throws
FailsToBind(h, i) ==
    /\ HandleTable[h].routes[i].type \in RouteTypes
    /\ HandleTable[h].routes[i].bad

(***************************************************************************)
(* C18.  When the binding of a descriptor throws inside registerAgent, the *)
(* call throws that error; the recognized descriptors before the failing   *)
(* one are bound on this.app and stay, the failing one and those after it  *)
(* are not bound, and the layers that were there before are untouched.     *)
(***************************************************************************)
C18_BindFailurePropagates ==
    [][\A h \in Handles :
          (/\ InputCheck(h) = "none"
           /\ HandleTable[h].hasPlugins
           /\ ~TeePushFails(HandleTable[h])
           /\ \E i \in DOMAIN HandleTable[h].routes : FailsToBind(h, i)
           /\ last'.op = "registerAgent" /\ last'.arg = h
           /\ RegisterAgent(h))
          => LET rs == HandleTable[h].routes
                 b == CHOOSE i \in DOMAIN rs :
                         /\ FailsToBind(h, i)
                         /\ \A k \in 1..(i - 1) : ~FailsToBind(h, k)
                 new == SubSeq(apps'[cur], Len(apps[cur]) + 1, Len(apps'[cur]))
             IN  /\ last'.err = "RouteBindError"
                 /\ IsPrefix(apps[cur], apps'[cur])
                 /\ \A i \in 1..(b - 1) :
                       rs[i].type \in RouteTypes
                       => \E j \in DOMAIN new :
                             /\ new[j].kind = "route"
                             /\ new[j].path = rs[i].path
                             /\ new[j].handler = rs[i].handler
                             /\ new[j].agent = h
                 /\ \A i \in b..Len(rs) : \A j \in DOMAIN new :
                       new[j].handler # rs[i].handler
                 /\ \A j \in DOMAIN new : \E i \in 1..(b - 1) :
                       new[j].handler = rs[i].handler]_vars

\* handle 3 (GET /a, a GET that cannot be bound, PUT /c) was registered:
\* the call threw, the first route is mounted, the last is not
C18_Witness ==
    /\ last.op = "registerAgent" /\ last.arg = 3
    /\ last.err = "RouteBindError"
    /\ \E i \in DOMAIN Exposed :
          Exposed[i].handler = "k5" /\ Exposed[i].agent = 3
    /\ \A i \in DOMAIN Exposed : Exposed[i].handler \notin {"k6", "k7"}

(***************************************************************************)
(* C19.  After a registerAgent call that passed the input checks and then  *)
(* threw (plugin lookup, provider/action push or route binding), the       *)
(* handle is in the registry under its identifier, and a run of the        *)
(* shutdown handler in that state invokes its stop.                        *)
(***************************************************************************)
C19_FailedRegistrationStaysLive ==
    (/\ last.op = "registerAgent"
     /\ last.err # "none"
     /\ last.err \notin InvalidAgentErrors)
    => LET id == HandleTable[last.arg].agentId
       IN  /\ last.err \in {"TypeError", "PushError", "RouteBindError"}
           /\ MapCount(agents, id) = 1
           /\ MapGet(agents, id) = last.arg
           /\ \E j \in DOMAIN DrainEvents(agents, 1) :
                 /\ DrainEvents(agents, 1)[j].ev = "stop"
                 /\ DrainEvents(agents, 1)[j].n = last.arg

\* handle 7, whose registration always throws in the push of the TEE
\* plugin's providers, was stopped by a shutdown
C19_Witness ==
    /\ \E i \in DOMAIN log : log[i].ev = "stop" /\ log[i].n = 7
    /\ MapHas(agents, "a2") /\ MapGet(agents, "a2") = 7

(***************************************************************************)
(* C20.  A termination signal stops exactly the handles the registry holds *)
(* when it is handled: in each run of the shutdown handler every handle in *)
(* the registry has its stop invoked once, in registry order, and no other *)
(* handle (unregistered, or replaced under its identifier) is stopped.     *)
(***************************************************************************)
C20_DrainStopsRegistry ==
    [][\A sig \in {"SIGTERM", "SIGINT"} :
          (last'.op = "signal" /\ Signal(sig)) =>
             LET run == SubSeq(log', Len(log) + 1, Len(log'))
                 runs == CountEv(run, "close")
             IN  /\ runs >= 1
                 /\ \A h \in Handles :
                       CountStops(run, h)
                          = IF \E i \in DOMAIN agents : agents[i].h = h
                            THEN runs ELSE 0
                 /\ \A i \in DOMAIN agents :
                       /\ run[i].ev = "stop"
                       /\ run[i].n = agents[i].h]_vars

\* handle 1 was registered (its routes are mounted) and replaced by handle
\* 2 before the signal: the shutdown stopped handle 2 and never handle 1
C20_Witness ==
    /\ log # <<>>
    /\ \E a \in DOMAIN apps : \E i \in DOMAIN apps[a] : apps[a][i].agent = 1
    /\ CountStops(log, 1) = 0
    /\ CountStops(log, 2) = 1

====
